---- MODULE Spec2Model ----
(***************************************************************************)
(* Saved-analysis persistence: the localStorage adapter (AnalysisStorage), *)
(* the repository functions of analysisStore.ts with their cache, and the  *)
(* route handlers that call them.                                          *)
(*                                                                         *)
(* Abstractions.  Times are integers (an ISO string and the instant it     *)
(* names determine each other).  All clock reads of one call return the    *)
(* same instant.  A record keeps the fields some operation reads or        *)
(* writes; the remaining fields of SavedAnalysis are carried along         *)
(* untouched by every operation and are left out.  An optional field is a  *)
(* sequence of length 0 (undefined) or 1.                                  *)
(***************************************************************************)
EXTENDS Integers, Sequences, FiniteSets, TLC

VARIABLES
  available,      \* what isLocalStorageAvailable() answers
  localStorage,   \* the two keys the adapter uses
  analysisCache,  \* the cache behind analysisStore.ts
  now,            \* Date.now()
  last,           \* the last call: name, arguments, outcome
  steps,          \* calls and events so far
  inflight        \* the requests waiting at the await of their body, and those answered

vars == <<available, localStorage, analysisCache, now, last, steps, inflight>>

\* Bounds of the model.
MaxTime == 2
MaxLog == 3
MaxSteps == 4
MaxRecords == 11

\* AnalysisStorage.addDashboardActivity / getRecentActivity: slice(0, 20)
ActivityCap == 20

Times == 0..MaxTime
\* POST assigns Date.now().toString() as id, so ids and instants coincide.
Ids == Times
Statuses == {"draft", "sent_to_client", "published"}

None == <<>>
Some(x) == <<x>>

(***************************************************************************)
(* Values.  A number is tagged so that NaN and the null JSON.stringify     *)
(* writes for it are values of the same kind as the numbers.               *)
(***************************************************************************)
Num(n) == [k |-> "num", v |-> n]
NaN == [k |-> "NaN", v |-> 0]
JsonNull == [k |-> "null", v |-> 0]

SavedAnalysis(id, title, value, status, created, updated) ==
  [id |-> id,
   title |-> title,
   property |-> [address |-> "addr", value_clp |-> value],
   analysis |-> [suggested_rent_clp |-> Num(1)],
   calculations |-> [cap_rate |-> Num(0)],
   metadata |-> [created_at |-> created, updated_at |-> updated,
                 broker_email |-> "broker", status |-> status,
                 tags |-> None, notes |-> None]]

\* JSON.parse(JSON.stringify(x)) on a number: NaN is written as null.
JSONNumber(x) == IF x.k = "NaN" THEN JsonNull ELSE x

\* an object with the parts of a SavedAnalysis that are read
wellFormed(a) == {"property", "analysis", "calculations", "metadata"} \subseteq DOMAIN a

\* an object of a payload that has an id and nothing else
Stub == [id |-> -1]

\* JSON.parse(JSON.stringify(a)) on one record.
JSONRecord(a) ==
  IF wellFormed(a)
  THEN [a EXCEPT !.property.value_clp = JSONNumber(@),
                 !.analysis.suggested_rent_clp = JSONNumber(@),
                 !.calculations.cap_rate = JSONNumber(@)]
  ELSE a

\* JSON.parse(JSON.stringify(analyses)) on an array of records.
JSONArray(analyses) == [i \in 1..Len(analyses) |-> JSONRecord(analyses[i])]

(***************************************************************************)
(* The text stored under a key: absent, an array, text JSON.parse rejects, *)
(* or text that parses to something that is not an array.                  *)
(***************************************************************************)
Absent == [kind |-> "absent", val |-> <<>>]
Arr(s) == [kind |-> "array", val |-> s]
Garbage == [kind |-> "garbage", val |-> <<>>]
NonArray == [kind |-> "nonarray", val |-> <<>>]

ZeroDashboard ==
  [totalAnalyses |-> 0, activeRentals |-> 0, totalRevenue |-> 0,
   averageRentability |-> <<0, 1>>, recentActivity |-> <<>>]

NoDashboard == [kind |-> "absent", val |-> ZeroDashboard]
StoredDashboard(d) == [kind |-> "object", val |-> d]

\* What a call leaves behind: the storage, its return value, whether it threw.
Ret(ls, v) == [ls |-> ls, ret |-> v, threw |-> FALSE]
Throw(ls, v) == [ls |-> ls, ret |-> v, threw |-> TRUE]

isLocalStorageAvailable == available

\* a.findIndex(x => x.id === id), 1-based; 0 when there is none
findIndex(s, id) ==
  IF \E i \in 1..Len(s) : s[i].id = id
  THEN CHOOSE i \in 1..Len(s) : s[i].id = id /\ \A j \in 1..(i - 1) : s[j].id # id
  ELSE 0

RECURSIVE filterOut(_, _)
\* a.filter(x => x.id !== id)
filterOut(s, id) ==
  IF s = <<>> THEN <<>>
  ELSE IF Head(s).id = id THEN filterOut(Tail(s), id)
       ELSE <<Head(s)>> \o filterOut(Tail(s), id)

\* AnalysisStorage.getAll: the parsed value, an array or not
getAll(ls) ==
  IF ~isLocalStorageAvailable THEN Arr(<<>>)
  ELSE CASE ls.rental_analyses.kind = "absent" -> Arr(<<>>)
         [] ls.rental_analyses.kind = "garbage" -> Arr(<<>>)
         [] ls.rental_analyses.kind = "nonarray" -> NonArray
         [] OTHER -> Arr(ls.rental_analyses.val)

RECURSIVE insertByDate(_, _)
\* position of x in a list sorted by date, latest first, after its equals
insertByDate(sorted, x) ==
  IF sorted = <<>> THEN <<x>>
  ELSE IF Head(sorted).date >= x.date
       THEN <<Head(sorted)>> \o insertByDate(Tail(sorted), x)
       ELSE <<x>> \o sorted

RECURSIVE sortByDate(_)
\* activities.sort((a, b) => b.date - a.date), a stable sort
sortByDate(s) ==
  IF s = <<>> THEN <<>>
  ELSE insertByDate(sortByDate(SubSeq(s, 1, Len(s) - 1)), s[Len(s)])

\* a slice that keeps everything
slice_all(s, n) == s

\* s.slice(0, n)
slice(s, n) == SubSeq(s, 1, IF Len(s) < n THEN Len(s) ELSE n)

RECURSIVE activitiesOf(_)
\* the entries getRecentActivity derives from the records, in their order
activitiesOf(s) ==
  IF s = <<>> THEN <<>>
  ELSE LET a == Head(s)
           created == [id |-> <<"analysis", a.id>>, type |-> "analysis_created",
                       title |-> "Nuevo analisis creado", about |-> a.title,
                       date |-> a.metadata.created_at]
           sent == [id |-> <<"sent", a.id>>, type |-> "rental_sent",
                    title |-> "Propuesta enviada", about |-> a.title,
                    date |-> a.metadata.updated_at]
       IN  (IF a.metadata.status = "sent_to_client" THEN <<created, sent>>
            ELSE <<created>>) \o activitiesOf(Tail(s))

\* AnalysisStorage.getRecentActivity, on an array
getRecentActivity(analyses) == slice(sortByDate(activitiesOf(analyses)), ActivityCap)

RECURSIVE sum(_)
\* reduce((sum, x) => sum + x, 0)
sum(s) == IF s = <<>> THEN 0 ELSE Head(s) + sum(Tail(s))

\* x || 0 on a number read back from storage
orZero(x) == IF x.k = "num" THEN x.v ELSE 0

isActive(a) == a.metadata.status \in {"sent_to_client", "published"}

\* AnalysisStorage.updateDashboardStats
updateDashboardStats(ls) ==
  LET all == getAll(ls) IN
  IF all.kind # "array" THEN Throw(ls, FALSE)   \* analyses.filter is not a function
  ELSE IF \E i \in 1..Len(all.val) : ~wellFormed(all.val[i])
  THEN Throw(ls, FALSE)                         \* a.metadata is undefined
  ELSE LET analyses == all.val
           active(a) == IF isActive(a) THEN 1 ELSE 0
           rent(a) == orZero(a.analysis.suggested_rent_clp)
           cap(a) == orZero(a.calculations.cap_rate)
           dashboardData ==
             [totalAnalyses |-> Len(analyses),
              activeRentals |-> sum([i \in 1..Len(analyses) |-> active(analyses[i])]),
              totalRevenue |-> sum([i \in 1..Len(analyses) |-> rent(analyses[i])]),
              averageRentability |->
                IF Len(analyses) > 0 THEN <<sum([i \in 1..Len(analyses) |-> cap(analyses[i])]), Len(analyses)>>
                ELSE <<0, 1>>,
              recentActivity |-> getRecentActivity(analyses)]
       IN  IF isLocalStorageAvailable
           THEN Ret([ls EXCEPT !.dashboard_data = StoredDashboard(dashboardData)], TRUE)
           ELSE Ret(ls, TRUE)

\* AnalysisStorage.getDashboardData
getDashboardData(ls) ==
  IF ~isLocalStorageAvailable THEN Ret(ls, ZeroDashboard)
  ELSE IF ls.dashboard_data.kind = "object" THEN Ret(ls, ls.dashboard_data.val)
  ELSE LET u == updateDashboardStats(ls) IN
       IF u.threw THEN Throw(ls, ZeroDashboard)
       ELSE Ret(u.ls, u.ls.dashboard_data.val)

\* AnalysisStorage.addDashboardActivity
addDashboardActivity(ls, activity) ==
  IF ~isLocalStorageAvailable THEN Ret(ls, TRUE)
  ELSE LET g == getDashboardData(ls) IN
       IF g.threw THEN Ret(ls, TRUE)   \* caught and logged
       ELSE LET activities == <<activity>> \o g.ret.recentActivity
                updatedData == [g.ret EXCEPT !.recentActivity = slice(activities, ActivityCap)]
            IN  Ret([g.ls EXCEPT !.dashboard_data = StoredDashboard(updatedData)], TRUE)

\* the record written as the caller passed it
stamped_not(analysis) == analysis

\* the record save writes over an existing one
stamped(analysis) == [analysis EXCEPT !.metadata.updated_at = now]

\* save without the availability check
save_unchecked(ls, analysis) ==
  LET analyses == IF ls.rental_analyses.kind = "array" THEN ls.rental_analyses.val ELSE <<>>
      existingIndex == findIndex(analyses, analysis.id)
      written == IF existingIndex > 0
                 THEN [analyses EXCEPT ![existingIndex] = stamped(analysis)]
                 ELSE Append(analyses, analysis)
  IN  Ret([ls EXCEPT !.rental_analyses = Arr(JSONArray(written))], TRUE)

\* AnalysisStorage.save
save(ls, analysis) ==
  IF ~isLocalStorageAvailable THEN Ret(ls, FALSE)
  ELSE LET all == getAll(ls) IN
       IF all.kind # "array" THEN Ret(ls, FALSE)   \* TypeError, caught
       ELSE LET analyses == all.val
                existingIndex == findIndex(analyses, analysis.id)
                written == IF existingIndex > 0
                           THEN [analyses EXCEPT ![existingIndex] = stamped(analysis)]
                           ELSE Append(analyses, analysis)
                ls1 == [ls EXCEPT !.rental_analyses = Arr(JSONArray(written))]
                u == updateDashboardStats(ls1)
            IN  IF u.threw THEN Ret(ls1, FALSE) ELSE Ret(u.ls, TRUE)

\* AnalysisStorage.getById
getById(ls, id) ==
  LET all == getAll(ls) IN
  IF all.kind # "array" THEN Throw(ls, None)   \* analyses.find is not a function
  ELSE LET i == findIndex(all.val, id) IN
       Ret(ls, IF i > 0 THEN Some(all.val[i]) ELSE None)

\* AnalysisStorage.delete
delete(ls, id) ==
  IF ~isLocalStorageAvailable THEN Ret(ls, FALSE)
  ELSE LET all == getAll(ls) IN
       IF all.kind # "array" THEN Ret(ls, FALSE)   \* TypeError, caught
       ELSE LET ls1 == [ls EXCEPT !.rental_analyses = Arr(JSONArray(filterOut(all.val, id)))]
                u == updateDashboardStats(ls1)
            IN  IF u.threw THEN Ret(ls1, FALSE) ELSE Ret(u.ls, TRUE)

\* updateStatus that leaves updated_at as it was
updateStatus_untimed(ls, id, status) ==
  LET all == getAll(ls) IN
  IF all.kind # "array" THEN Throw(ls, FALSE)
  ELSE LET analysisIndex == findIndex(all.val, id) IN
       IF analysisIndex = 0 THEN Ret(ls, FALSE)
       ELSE LET analyses == [all.val EXCEPT ![analysisIndex].metadata.status = status]
                ls1 == [ls EXCEPT !.rental_analyses = Arr(JSONArray(analyses))]
                act == [id |-> <<"activity", now>>, type |-> "rental_sent",
                        title |-> <<"Estado actualizado", status>>,
                        about |-> analyses[analysisIndex].title, date |-> now]
            IN  Ret(addDashboardActivity(ls1, act).ls, TRUE)

\* AnalysisStorage.updateStatus
updateStatus(ls, id, status) ==
  LET all == getAll(ls) IN
  IF all.kind # "array" THEN Throw(ls, FALSE)   \* analyses.findIndex is not a function
  ELSE LET analysisIndex == findIndex(all.val, id) IN
       IF analysisIndex = 0 THEN Ret(ls, FALSE)
       ELSE LET analyses == [all.val EXCEPT ![analysisIndex].metadata.status = status,
                                            ![analysisIndex].metadata.updated_at = now]
                ls1 == [ls EXCEPT !.rental_analyses = Arr(JSONArray(analyses))]
                act == [id |-> <<"activity", now>>, type |-> "rental_sent",
                        title |-> <<"Estado actualizado", status>>,
                        about |-> analyses[analysisIndex].title, date |-> now]
            IN  Ret(addDashboardActivity(ls1, act).ls, TRUE)

\* AnalysisStorage.clearAll
clearAll(ls) ==
  IF ~isLocalStorageAvailable THEN Ret(ls, FALSE)
  ELSE Ret([rental_analyses |-> Absent, dashboard_data |-> NoDashboard], TRUE)

(***************************************************************************)
(* importData(jsonData).  The text is one of: text JSON.parse rejects,     *)
(* an object without analyses, an object whose analyses is no array, an    *)
(* object whose analyses is the array val.                                 *)
(***************************************************************************)
Blob(kind, s) == [kind |-> kind, val |-> s]

\* importData that takes a payload without an array for an empty one
importData_lenient(ls, jsonData) ==
  IF ~isLocalStorageAvailable THEN Ret(ls, FALSE)
  ELSE LET data == IF jsonData.kind = "array" THEN jsonData.val ELSE <<>>
           ls1 == [ls EXCEPT !.rental_analyses = Arr(JSONArray(data))]
           u == updateDashboardStats(ls1)
       IN  IF u.threw THEN Ret(ls1, FALSE) ELSE Ret(u.ls, TRUE)

\* importData that adds the payload's records to the stored ones
importData_merging(ls, jsonData) ==
  IF jsonData.kind # "array" THEN Ret(ls, FALSE)
  ELSE IF ~isLocalStorageAvailable THEN Ret(ls, FALSE)
  ELSE LET kept == IF getAll(ls).kind = "array" THEN getAll(ls).val ELSE <<>>
           ls1 == [ls EXCEPT !.rental_analyses = Arr(JSONArray(kept \o jsonData.val))]
           u == updateDashboardStats(ls1)
       IN  IF u.threw THEN Ret(ls1, FALSE) ELSE Ret(u.ls, TRUE)

\* AnalysisStorage.importData
importData(ls, jsonData) ==
  IF jsonData.kind # "array" THEN Ret(ls, FALSE)
  ELSE IF ~isLocalStorageAvailable THEN Ret(ls, FALSE)   \* setItem throws, caught
  ELSE LET ls1 == [ls EXCEPT !.rental_analyses = Arr(JSONArray(jsonData.val))]
           u == updateDashboardStats(ls1)
       IN  IF u.threw THEN Ret(ls1, FALSE) ELSE Ret(u.ls, TRUE)

\* AnalysisStorage.exportData: the text of the records, of the dashboard
\* summary and of the time; importData reads the records of it only
exportData(ls) ==
  LET analyses == getAll(ls)
      dashboardData == getDashboardData(ls)
  IN  IF dashboardData.threw THEN Throw(dashboardData.ls, Blob("missing", <<>>))
      ELSE Ret(dashboardData.ls, Blob(analyses.kind, JSONArray(analyses.val)))

(***************************************************************************)
(* analysisCache (@/lib/cache/analysisCache): single records by id and the *)
(* one list key {}.  An entry the time-to-live has run out on reads as a   *)
(* miss, which is what Expire leaves.  The cache keeps the object it is    *)
(* given, not a copy.                                                      *)
(***************************************************************************)
EmptyCache == [entries |-> [i \in Ids |-> None], list |-> None]

cacheGet(c, id) == IF id \in DOMAIN c.entries THEN c.entries[id] ELSE None
cacheSet(c, id, a) ==
  IF id \in DOMAIN c.entries THEN [c EXCEPT !.entries[id] = Some(a)] ELSE c
cacheInvalidate(c, id) ==
  IF id \in DOMAIN c.entries THEN [c EXCEPT !.entries[id] = None] ELSE c
cacheGetList(c) == c.list
cacheSetList(c, result) == [c EXCEPT !.list = Some(result)]
cacheInvalidateLists(c) == [c EXCEPT !.list = None]

(***************************************************************************)
(* analysisStore.ts.  A world is the storage and the cache together.       *)
(***************************************************************************)
Out(ls, c, v) == [ls |-> ls, cache |-> c, ret |-> v, threw |-> FALSE]
Raise(ls, c, v) == [ls |-> ls, cache |-> c, ret |-> v, threw |-> TRUE]

\* initializeWithExampleData: does nothing
initializeWithExampleData(ls) == ls

\* getAllAnalyses
getAllAnalyses(ls, c) ==
  LET cached == cacheGetList(c) IN
  IF cached # None THEN Out(ls, c, cached[1])
  ELSE LET ls1 == initializeWithExampleData(ls)
           result == getAll(ls1)
       IN  Out(ls1, cacheSetList(c, result), result)

\* AnalysisStorage.generateId: analysis_<clock>_<random>, a text that no
\* clock reading is; n tells one draw from the next
generateId(n) == MaxTime + n

\* one day, in readings of the clock
Day == 1

\* the two example records of the second definition
exampleAnalyses ==
  << [id |-> generateId(1),
      title |-> "Departamento",
      property |-> [address |-> "Las Condes", value_clp |-> Num(95)],
      analysis |-> [suggested_rent_clp |-> Num(85)],
      calculations |-> [cap_rate |-> Num(8)],
      metadata |-> [created_at |-> now, updated_at |-> now,
                    broker_email |-> "corredor", status |-> "draft",
                    tags |-> <<"departamento", "las-condes">>,
                    notes |-> Some("inicial")]],
     [id |-> generateId(2),
      title |-> "Casa",
      property |-> [address |-> "Providencia", value_clp |-> Num(120)],
      analysis |-> [suggested_rent_clp |-> Num(120)],
      calculations |-> [cap_rate |-> Num(9)],
      metadata |-> [created_at |-> now - Day, updated_at |-> now - Day,
                    broker_email |-> "corredor", status |-> "sent_to_client",
                    tags |-> <<"casa", "providencia">>,
                    notes |-> None]] >>

\* initializeWithExampleData, second definition in the file: with no stored
\* record, saves the example records one after the other
initializeWithExampleData_2(ls) ==
  LET existingAnalyses == getAll(ls) IN
  IF existingAnalyses.kind = "array" /\ Len(existingAnalyses.val) = 0
  THEN save(save(ls, exampleAnalyses[1]).ls, exampleAnalyses[2]).ls
  ELSE ls

\* getAllAnalyses, second definition in the file
getAllAnalyses_2(ls, c) ==
  LET cached == cacheGetList(c) IN
  IF cached # None THEN Out(ls, c, cached[1])
  ELSE LET ls1 == initializeWithExampleData_2(ls)
           result == getAll(ls1)
       IN  Out(ls1, cacheSetList(c, result), result)

\* getAnalysisById
getAnalysisById(ls, c, id) ==
  LET cached == cacheGet(c, id) IN
  IF cached # None THEN Out(ls, c, cached)
  ELSE LET g == getById(ls, id) IN
       IF g.threw THEN Raise(ls, c, None)
       ELSE IF g.ret # None THEN Out(ls, cacheSet(c, id, g.ret[1]), g.ret)
       ELSE Out(ls, c, None)

\* the entry saveAnalysis and deleteAnalysis add to the activity log
activityFor(kind, analysis) ==
  [id |-> <<kind, now>>, type |-> "analysis_created",
   title |-> IF kind = "save" THEN "Analisis guardado" ELSE "Analisis eliminado",
   about |-> analysis.title, date |-> now]

\* saveAnalysis that leaves the cached list in place
saveAnalysis_keepsList(ls, c, analysis) ==
  LET s == save(ls, analysis) IN
  IF s.ret
  THEN LET c1 == cacheSet(c, analysis.id, analysis)
           a == addDashboardActivity(s.ls, activityFor("save", analysis))
       IN  Out(a.ls, c1, Some(analysis))
  ELSE Raise(s.ls, c, None)

\* saveAnalysis that answers nothing when the adapter could not save
saveAnalysis_quiet(ls, c, analysis) ==
  LET s == save(ls, analysis) IN
  IF s.ret
  THEN LET c1 == cacheInvalidateLists(cacheSet(c, analysis.id, analysis))
           a == addDashboardActivity(s.ls, activityFor("save", analysis))
       IN  Out(a.ls, c1, Some(analysis))
  ELSE Out(s.ls, c, None)

\* saveAnalysis
saveAnalysis(ls, c, analysis) ==
  LET s == save(ls, analysis) IN
  IF s.ret
  THEN LET c1 == cacheInvalidateLists(cacheSet(c, analysis.id, analysis))
           a == addDashboardActivity(s.ls, activityFor("save", analysis))
       IN  Out(a.ls, c1, Some(analysis))
  ELSE Raise(s.ls, c, None)

\* deleteAnalysis that leaves the cached record in place
deleteAnalysis_keepsEntry(ls, c, id) ==
  LET g == getById(ls, id) IN
  IF g.threw THEN Raise(ls, c, FALSE)
  ELSE LET d == delete(ls, id) IN
       IF d.ret
       THEN LET c1 == cacheInvalidateLists(c)
                ls1 == IF g.ret # None
                       THEN addDashboardActivity(d.ls, activityFor("delete", g.ret[1])).ls
                       ELSE d.ls
            IN  Out(ls1, c1, TRUE)
       ELSE Out(d.ls, c, FALSE)

\* deleteAnalysis
deleteAnalysis(ls, c, id) ==
  LET g == getById(ls, id) IN
  IF g.threw THEN Raise(ls, c, FALSE)
  ELSE LET d == delete(ls, id) IN
       IF d.ret
       THEN LET c1 == cacheInvalidateLists(cacheInvalidate(c, id))
                ls1 == IF g.ret # None
                       THEN addDashboardActivity(d.ls, activityFor("delete", g.ret[1])).ls
                       ELSE d.ls
            IN  Out(ls1, c1, TRUE)
       ELSE Out(d.ls, c, FALSE)

\* { ...a }
spread_left(a, b) == a

\* { ...a, ...b }
spread(a, b) ==
  [k \in (DOMAIN a) \cup (DOMAIN b) |-> IF k \in DOMAIN b THEN b[k] ELSE a[k]]

\* updateAnalysis
updateAnalysis(ls, c, id, updates) ==
  LET g == getById(ls, id) IN
  IF g.threw THEN Raise(ls, c, None)
  ELSE IF g.ret = None THEN Out(ls, c, None)
  ELSE LET existingAnalysis == g.ret[1]
           meta == IF "metadata" \in DOMAIN updates
                   THEN spread(existingAnalysis.metadata, updates.metadata)
                   ELSE existingAnalysis.metadata
           updatedAnalysis ==
             [spread(existingAnalysis, updates) EXCEPT
                !.metadata = [meta EXCEPT !.updated_at = now]]
           s == save(ls, updatedAnalysis)
       IN  IF s.ret
           THEN Out(s.ls, cacheInvalidateLists(cacheSet(c, id, updatedAnalysis)),
                    Some(updatedAnalysis))
           ELSE Out(s.ls, c, None)

\* updateAnalysisStatus that invalidates the cache whatever the adapter answers
updateAnalysisStatus_eager(ls, c, id, status) ==
  LET u == updateStatus(ls, id, status) IN
  IF u.threw THEN Raise(ls, c, FALSE)
  ELSE Out(u.ls, cacheInvalidateLists(cacheInvalidate(c, id)), u.ret)

\* updateAnalysisStatus
updateAnalysisStatus(ls, c, id, status) ==
  LET u == updateStatus(ls, id, status) IN
  IF u.threw THEN Raise(ls, c, FALSE)
  ELSE IF u.ret THEN Out(u.ls, cacheInvalidateLists(cacheInvalidate(c, id)), TRUE)
  ELSE Out(u.ls, c, FALSE)

(***************************************************************************)
(* The route handlers of /api/analyses/[id].  A handler answers a status   *)
(* code; whatever it throws is caught and answered with 500.               *)
(***************************************************************************)
Response(code) == [kind |-> "response", val |-> <<code>>]

\* DELETE
DELETE(ls, c, id) ==
  LET g == getAnalysisById(ls, c, id) IN
  IF g.threw THEN Out(g.ls, g.cache, Response(500))
  ELSE IF g.ret = None THEN Out(g.ls, g.cache, Response(404))
  ELSE IF g.ret[1].metadata.status = "published" THEN Out(g.ls, g.cache, Response(403))
  ELSE LET d == deleteAnalysis(g.ls, g.cache, id) IN
       IF d.threw THEN Out(d.ls, d.cache, Response(500))
       ELSE IF ~d.ret THEN Out(d.ls, d.cache, Response(500))
       ELSE Out(d.ls, d.cache, Response(200))

(***************************************************************************)
(* Request bodies.  A body is a record of the fields it carries.  A number *)
(* typed into a form arrives as text: digits, other characters, or empty.  *)
(***************************************************************************)
Digits(n) == [k |-> "digits", v |-> n]
Letters == [k |-> "letters", v |-> 0]
EmptyText == [k |-> "empty", v |-> 0]

\* the value of a property that is not there
Undefined == [k |-> "undefined", v |-> 0]

\* parseFloat(text)
parseFloat(text) == IF text.k = "digits" THEN Num(text.v) ELSE NaN

\* a validation that looks at the title only
missingRequired_title(formData) ==
  "title" \notin DOMAIN formData \/ formData.title = ""

\* !formData.title || !formData.property_address || !formData.property_value_clp
missingRequired(formData) ==
  \/ "title" \notin DOMAIN formData
  \/ formData.title = ""
  \/ "property_address" \notin DOMAIN formData
  \/ formData.property_address = ""
  \/ "property_value_clp" \notin DOMAIN formData
  \/ formData.property_value_clp.k = "empty"

\* calculations || { cap_rate: 0, ... }
DefaultCalculations == [cap_rate |-> Num(0)]

\* formDataToSavedAnalysis(formData, calculations)
formDataToSavedAnalysis(formData, calculations) ==
  [title |-> formData.title,
   property |-> [address |-> formData.property_address,
                 value_clp |-> parseFloat(formData.property_value_clp)],
   analysis |-> [suggested_rent_clp |->
                   IF "suggested_rent_clp" \in DOMAIN formData
                      /\ formData.suggested_rent_clp.k # "empty"
                   THEN parseFloat(formData.suggested_rent_clp)
                   ELSE Undefined],
   calculations |-> calculations]

\* what a handler answers after a call of analysisStore.ts: 500 from the
\* catch when the call threw, the handler's own code otherwise
Answer(r, code) == Out(r.ls, r.cache, Response(IF r.threw THEN 500 ELSE code))

\* a lookup that answers a miss with 200
Lookup_lenient(g) == Out(g.ls, g.cache, Response(IF g.threw THEN 500 ELSE 200))

\* the first steps of GET, PUT and PATCH on what getAnalysisById answered:
\* 500 when it threw, 404 when it found nothing
Lookup(g) == Out(g.ls, g.cache, Response(IF g.threw THEN 500 ELSE 404))

\* GET /api/analyses/[id]
GET(ls, c, id) == Answer(getAnalysisById(ls, c, id), IF getAnalysisById(ls, c, id).ret = None THEN 404 ELSE 200)

\* a record that takes its status from the form when the form names one
newAnalysis_trusting(formData, analysisData) ==
  [id |-> now,
   title |-> analysisData.title,
   property |-> analysisData.property,
   analysis |-> analysisData.analysis,
   calculations |-> analysisData.calculations,
   metadata |-> [created_at |-> now, updated_at |-> now,
                 broker_email |-> formData.broker_email,
                 status |-> IF "status" \in DOMAIN formData THEN formData.status ELSE "draft",
                 tags |-> IF "tags" \in DOMAIN formData THEN formData.tags ELSE <<>>,
                 notes |-> IF "notes" \in DOMAIN formData THEN formData.notes ELSE None]]

\* POST: the record built from the form
newAnalysis(formData, analysisData) ==
  [id |-> now,
   title |-> analysisData.title,
   property |-> analysisData.property,
   analysis |-> analysisData.analysis,
   calculations |-> analysisData.calculations,
   metadata |-> [created_at |-> now, updated_at |-> now,
                 broker_email |-> formData.broker_email,
                 status |-> "draft",
                 tags |-> IF "tags" \in DOMAIN formData THEN formData.tags ELSE <<>>,
                 notes |-> IF "notes" \in DOMAIN formData THEN formData.notes ELSE None]]

\* POST /api/analyses
POST(ls, c, formData) ==
  IF missingRequired(formData) THEN Out(ls, c, Response(400))
  ELSE Answer(saveAnalysis(ls, c, newAnalysis(formData,
                formDataToSavedAnalysis(formData, DefaultCalculations))), 201)

\* PUT: the record built from the form and the existing record
putAnalysis(existingAnalysis, formData, updatedAnalysisData) ==
  [id |-> existingAnalysis.id,
   title |-> updatedAnalysisData.title,
   property |-> updatedAnalysisData.property,
   analysis |-> updatedAnalysisData.analysis,
   calculations |-> updatedAnalysisData.calculations,
   metadata |->
     [existingAnalysis.metadata EXCEPT
        !.updated_at = now,
        !.broker_email = IF formData.broker_email # "" THEN formData.broker_email ELSE @,
        !.tags = IF "tags" \in DOMAIN formData THEN formData.tags ELSE @,
        !.notes = IF "notes" \in DOMAIN formData THEN formData.notes ELSE @]]

\* PUT, once the form is valid and getAnalysisById has answered g
PUT_valid(g, formData) ==
  IF g.threw \/ g.ret = None THEN Lookup(g)
  ELSE Answer(saveAnalysis(g.ls, g.cache,
                putAnalysis(g.ret[1], formData,
                            formDataToSavedAnalysis(formData, g.ret[1].calculations))), 200)

\* PUT /api/analyses/[id]
PUT(ls, c, id, formData) ==
  IF missingRequired(formData) THEN Out(ls, c, Response(400))
  ELSE PUT_valid(getAnalysisById(ls, c, id), formData)

RECURSIVE patchUpdates(_, _, _)
\* the loop of PATCH over Object.entries(body): each of status, tags, notes
\* rebuilds updates.metadata from the existing metadata
patchUpdates(entries, existingAnalysis, updates) ==
  IF entries = <<>> THEN updates
  ELSE LET key == Head(entries)[1]
           value == Head(entries)[2]
           next ==
             IF key \in {"status", "tags", "notes"}
             THEN spread(updates,
                         [metadata |-> [existingAnalysis.metadata EXCEPT
                                          ![key] = value, !.updated_at = now]])
             ELSE IF key = "title" THEN spread(updates, [title |-> value])
             ELSE updates
       IN  patchUpdates(Tail(entries), existingAnalysis, next)

\* PATCH: the record built from the existing record and the updates
patchAnalysis(existingAnalysis, updates) ==
  [spread(existingAnalysis, updates) EXCEPT
     !.metadata = [(IF "metadata" \in DOMAIN updates
                    THEN spread(existingAnalysis.metadata, updates.metadata)
                    ELSE existingAnalysis.metadata) EXCEPT !.updated_at = now]]

\* PATCH, once getAnalysisById has answered g
PATCH_found(g, body) ==
  IF g.threw \/ g.ret = None THEN Lookup(g)
  ELSE Answer(saveAnalysis(g.ls, g.cache,
                patchAnalysis(g.ret[1], patchUpdates(body, g.ret[1], [k \in {} |-> 0]))), 200)

\* PATCH /api/analyses/[id]
PATCH(ls, c, id, body) == PATCH_found(getAnalysisById(ls, c, id), body)

(***************************************************************************)
(* GET /api/analyses: the list query.  searchParams is a record of the     *)
(* parameters the URL carries, each a text.  The text of tags is written   *)
(* as the tags a client joined with commas: no tags at all join to the     *)
(* empty text.  A date is written as the time it names.                    *)
(***************************************************************************)
Csv(tags) == [k |-> "csv", v |-> tags]
DateText(t) == [k |-> "date", v |-> t]

\* searchParams.get(name) || undefined: the text, unless there is none or
\* it is the empty one
get(searchParams, name, empty) ==
  IF name \in DOMAIN searchParams /\ searchParams[name] # empty
  THEN Some(searchParams[name]) ELSE None

\* whether a number counts as true: undefined, 0 and NaN do not
truthy(x) == x.k = "num" /\ x.v # 0

\* parseInt(text)
parseInt(text) == IF text.k = "digits" THEN Num(text.v) ELSE NaN

\* text.split(','): the empty text splits into one empty tag
split(text) == IF text.v = <<>> THEN <<"">> ELSE text.v

\* new Date(text)
Date(text) == text.v

\* text.toLowerCase(), on the words of the model
toLowerCase(text) ==
  IF text = "A" THEN "a" ELSE IF text = "B" THEN "b" ELSE text

\* text.includes(word), on the words of the model: a word is part of itself
includes(text, word) == text = word

\* the order of two titles as JavaScript compares strings
ord(title) == IF title = "A" THEN 1 ELSE IF title = "B" THEN 2 ELSE 0

\* the filters the handler reads from the URL
parseFilters(searchParams) ==
  [search |-> get(searchParams, "search", ""),
   status |-> get(searchParams, "status", ""),
   dateFrom |-> get(searchParams, "dateFrom", EmptyText),
   dateTo |-> get(searchParams, "dateTo", EmptyText),
   minValue |-> IF get(searchParams, "minValue", EmptyText) # None
                THEN parseFloat(searchParams.minValue) ELSE Undefined,
   maxValue |-> IF get(searchParams, "maxValue", EmptyText) # None
                THEN parseFloat(searchParams.maxValue) ELSE Undefined,
   bedrooms |-> IF get(searchParams, "bedrooms", EmptyText) # None
                THEN parseInt(searchParams.bedrooms) ELSE Undefined,
   bathrooms |-> IF get(searchParams, "bathrooms", EmptyText) # None
                 THEN parseInt(searchParams.bathrooms) ELSE Undefined,
   tags |-> IF "tags" \in DOMAIN searchParams
            THEN Some(split(searchParams.tags)) ELSE None,
   sortBy |-> IF get(searchParams, "sortBy", "") # None
              THEN searchParams.sortBy ELSE "updated_at",
   sortOrder |-> IF get(searchParams, "sortOrder", "") # None
                 THEN searchParams.sortOrder ELSE "desc"]

\* parseInt(searchParams.get(name) || fallback), for texts of digits
pageParam(searchParams, name, fallback) ==
  IF get(searchParams, name, EmptyText) # None THEN searchParams[name].v ELSE fallback

\* the tags of a record; a record may have none
tagsOf(analysis) ==
  IF "tags" \in DOMAIN analysis.metadata THEN analysis.metadata.tags ELSE <<>>

\* whether the handler takes the branch of a filter
applies(filters, name) ==
  CASE name = "search" -> filters.search # None
    [] name = "status" -> filters.status # None
    [] name = "minValue" -> truthy(filters.minValue)
    [] name = "maxValue" -> truthy(filters.maxValue)
    [] name = "bedrooms" -> truthy(filters.bedrooms)
    [] name = "bathrooms" -> truthy(filters.bathrooms)
    [] name = "tags" -> filters.tags # None /\ Len(filters.tags[1]) > 0
    [] name = "dateFrom" -> filters.dateFrom # None
    [] name = "dateTo" -> filters.dateTo # None

FilterNames ==
  {"search", "status", "minValue", "maxValue", "bedrooms", "bathrooms", "tags",
   "dateFrom", "dateTo"}

\* the test of one filter on one record
passes(filters, name, analysis) ==
  CASE name = "search" ->
         \/ includes(toLowerCase(analysis.title), toLowerCase(filters.search[1]))
         \/ includes(toLowerCase(analysis.property.address), toLowerCase(filters.search[1]))
    [] name = "status" -> analysis.metadata.status = filters.status[1]
    [] name = "minValue" ->
         analysis.property.value_clp.k = "num"
           /\ analysis.property.value_clp.v >= filters.minValue.v
    [] name = "maxValue" ->
         analysis.property.value_clp.k = "num"
           /\ analysis.property.value_clp.v <= filters.maxValue.v
    [] name = "bedrooms" -> analysis.property.bedrooms = filters.bedrooms
    [] name = "bathrooms" -> analysis.property.bathrooms = filters.bathrooms
    [] name = "tags" ->
         \E i \in 1..Len(filters.tags[1]) :
           \E j \in 1..Len(tagsOf(analysis)) : tagsOf(analysis)[j] = filters.tags[1][i]
    [] name = "dateFrom" -> analysis.metadata.created_at >= Date(filters.dateFrom[1])
    [] name = "dateTo" -> analysis.metadata.created_at <= Date(filters.dateTo[1])

\* the chain of filters: a record stays when it passes every filter whose
\* branch is taken
applyFilters(analyses, filters) ==
  SelectSeq(analyses,
            LAMBDA analysis :
              \A name \in FilterNames :
                applies(filters, name) => passes(filters, name, analysis))

\* whether some branch was taken; when none was, filteredAnalyses is still
\* the array getAllAnalyses answered
filtered(filters) == \E name \in FilterNames : applies(filters, name)

\* aValue, bValue
sortKey(analysis, sortBy) ==
  CASE sortBy = "title" -> ord(analysis.title)
    [] sortBy = "property_value" -> analysis.property.value_clp.v
    [] sortBy = "created_at" -> analysis.metadata.created_at
    [] OTHER -> analysis.metadata.updated_at

\* the comparator handed to sort: it never answers 0
compare(a, b, sortBy, sortOrder) ==
  IF sortOrder = "asc"
  THEN IF sortKey(a, sortBy) > sortKey(b, sortBy) THEN 1 ELSE -1
  ELSE IF sortKey(a, sortBy) < sortKey(b, sortBy) THEN 1 ELSE -1

\* the arrangements of a sequence
Arrangements(s) ==
  { [i \in 1..Len(s) |-> s[p[i]]] :
      p \in { q \in [1..Len(s) -> 1..Len(s)] :
                \A i, j \in 1..Len(s) : q[i] = q[j] => i = j } }

\* what filteredAnalyses.sort(comparator) may leave: an arrangement in which
\* no two elements stand against an order the comparator gives them both
\* ways round.  For two elements of equal key the comparator answers -1 both
\* ways round, and the order sort leaves them in is the implementation's.
sort(s, sortBy, sortOrder) ==
  { t \in Arrangements(s) :
      \A i, j \in 1..Len(t) :
        i < j => ~(/\ compare(t[i], t[j], sortBy, sortOrder) > 0
                   /\ compare(t[j], t[i], sortBy, sortOrder) < 0) }

\* s.slice(start, end)
sliceFrom(s, start, end) ==
  IF start >= Len(s) THEN <<>>
  ELSE SubSeq(s, start + 1, IF end < Len(s) THEN end ELSE Len(s))

\* a pagination that counts pages from 0
paginate_fromZero(filteredAnalyses, page, pageSize) ==
  [analyses |-> sliceFrom(filteredAnalyses, page * pageSize, page * pageSize + pageSize),
   total |-> Len(filteredAnalyses),
   page |-> page,
   pageSize |-> pageSize,
   hasMore |-> page * pageSize + pageSize < Len(filteredAnalyses)]

\* startIndex, endIndex, paginatedAnalyses and the response
paginate(filteredAnalyses, page, pageSize) ==
  [analyses |-> sliceFrom(filteredAnalyses, (page - 1) * pageSize,
                          (page - 1) * pageSize + pageSize),
   total |-> Len(filteredAnalyses),
   page |-> page,
   pageSize |-> pageSize,
   hasMore |-> (page - 1) * pageSize + pageSize < Len(filteredAnalyses)]

\* the handler once getAllAnalyses has answered g and sort has left sorted:
\* sort works in place, so when no filter branch was taken the sorted array
\* is the one the cache holds.  A stored value that is no array has no
\* filter and no sort: the TypeError is caught and answered with 500.
LIST_sorted(g, searchParams, sorted) ==
  IF g.ret.kind # "array" THEN Out(g.ls, g.cache, Response(500))
  ELSE Out(g.ls,
           IF filtered(parseFilters(searchParams)) THEN g.cache
           ELSE cacheSetList(g.cache, Arr(sorted)),
           Blob("list", <<paginate(sorted, pageParam(searchParams, "page", 1),
                                   pageParam(searchParams, "pageSize", 10))>>))

\* what the sort of the handler may leave
LIST_outcomes(g, searchParams) ==
  IF g.ret.kind # "array" THEN {<<>>}
  ELSE sort(applyFilters(g.ret.val, parseFilters(searchParams)),
            parseFilters(searchParams).sortBy, parseFilters(searchParams).sortOrder)

(***************************************************************************)
(* The state machine.  Every call is one step; last records the call.      *)
(***************************************************************************)
NoArg == Blob("none", <<>>)
Rec(a) == Blob("record", <<a>>)
NoRet == Arr(<<>>)

\* the stored records, as the text under the key has them
stored == localStorage.rental_analyses.val

\* the stored records with this id
held(s, id) == { i \in 1..Len(s) : s[i].id = id }

\* what the call found: whether the list and the record were cached, whether
\* the id was stored and with which status, and how long the activity log was
Pre(id) ==
  [list |-> cacheGetList(analysisCache) # None,
   entry |-> cacheGet(analysisCache, id) # None,
   held |-> held(stored, id) # {},
   status |-> IF held(stored, id) # {}
              THEN stored[CHOOSE i \in held(stored, id) : \A j \in held(stored, id) : i <= j].metadata.status
              ELSE "none",
   log |-> Len(localStorage.dashboard_data.val.recentActivity)]

Last(op, id, arg, ok, threw, ret) ==
  [op |-> op, id |-> id, arg |-> arg, ok |-> ok, threw |-> threw, ret |-> ret,
   pre |-> Pre(id)]

\* What callers pass in.
InputAnalyses ==
  { SavedAnalysis(id, "A", Num(100), "draft", 0, 0) : id \in Ids }
  \cup { SavedAnalysis(1, "A", Num(100), "published", 0, 0),
         SavedAnalysis(1, "A", Num(100), "draft", MaxTime, MaxTime),
         SavedAnalysis(0, "A", NaN, "draft", 0, 0) }

InputStatuses == {"sent_to_client", "published"}

InputUpdates ==
  { [title |-> "B"],
    [id |-> 1],
    [metadata |-> [status |-> "sent_to_client"]],
    [metadata |-> [created_at |-> MaxTime, updated_at |-> 0]] }

InputBlobs ==
  { Blob("garbage", <<>>), Blob("missing", <<>>), Blob("nonarray", <<>>),
    Blob("array", <<SavedAnalysis(1, "A", Num(100), "draft", 0, 0)>>),
    Blob("array", <<SavedAnalysis(1, "A", Num(100), "draft", 0, 0),
                    SavedAnalysis(1, "B", Num(100), "published", 1, 1)>>),
    Blob("array", <<SavedAnalysis(1, "A", Num(100), "draft", 0, 0),
                    SavedAnalysis(2, "A", JsonNull, "sent_to_client", 0, 1)>>) }

\* no request has arrived
NoRequests == [waiting |-> <<>>, done |-> <<>>]

logLength == Len(localStorage.dashboard_data.val.recentActivity)

Init ==
  /\ available = TRUE
  /\ localStorage = [rental_analyses |-> Absent, dashboard_data |-> NoDashboard]
  /\ analysisCache = EmptyCache
  /\ now = 0
  /\ last = [op |-> "init", id |-> 0, arg |-> NoArg, ok |-> FALSE, threw |-> FALSE,
             ret |-> NoRet,
             pre |-> [list |-> FALSE, entry |-> FALSE, held |-> FALSE, status |-> "none",
                     log |-> 0]]
  /\ steps = 0
  /\ inflight = NoRequests

\* one more call or event, while the budget lasts
Step == steps < MaxSteps /\ steps' = steps + 1

\* the clock advances
Tick ==
  /\ Step
  /\ now < MaxTime
  /\ now' = now + 1
  /\ last' = Last("tick", 0, NoArg, TRUE, FALSE, NoRet)
  /\ UNCHANGED <<inflight, available, localStorage, analysisCache>>

\* the store becomes unavailable, or available again
SetAvailable ==
  /\ Step
  /\ available' = ~available
  /\ last' = Last("available", 0, NoArg, TRUE, FALSE, NoRet)
  /\ UNCHANGED <<inflight, localStorage, analysisCache, now>>

\* something else writes text that is no array of records under the key
Corrupt ==
  /\ Step
  /\ available
  /\ \E v \in {Garbage, NonArray} :
       localStorage' = [localStorage EXCEPT !.rental_analyses = v]
  /\ last' = Last("corrupt", 0, NoArg, TRUE, FALSE, NoRet)
  /\ UNCHANGED <<inflight, available, analysisCache, now>>

\* the time-to-live of a cached record or of the cached list runs out
Expire ==
  /\ Step
  /\ \/ \E id \in Ids : /\ cacheGet(analysisCache, id) # None
                         /\ analysisCache' = cacheInvalidate(analysisCache, id)
     \/ /\ cacheGetList(analysisCache) # None
        /\ analysisCache' = cacheInvalidateLists(analysisCache)
  /\ last' = Last("expire", 0, NoArg, TRUE, FALSE, NoRet)
  /\ UNCHANGED <<inflight, available, localStorage, now>>

\* a call of the adapter that answers a boolean: r is what the call leaves
Adapter(op, id, arg, r) ==
  /\ Step
  /\ localStorage' = r.ls
  /\ last' = Last(op, id, arg, r.ret, r.threw, NoRet)
  /\ UNCHANGED <<inflight, available, analysisCache, now>>

Call_save == \E a \in InputAnalyses : Adapter("save", a.id, Rec(a), save(localStorage, a))

Call_delete == \E id \in Ids : Adapter("delete", id, NoArg, delete(localStorage, id))

Call_updateStatus ==
  /\ logLength < MaxLog
  /\ \E id \in Ids, st \in InputStatuses :
       Adapter("updateStatus", id, Blob(st, <<>>), updateStatus(localStorage, id, st))

Call_clearAll == Adapter("clearAll", 0, NoArg, clearAll(localStorage))

Call_importData ==
  \E b \in InputBlobs : Adapter("importData", 0, b, importData(localStorage, b))

\* a read of the adapter: it leaves the storage as it is
Call_getAll ==
  /\ last' = Last("getAll", 0, NoArg, TRUE, FALSE, getAll(localStorage))
  /\ UNCHANGED <<inflight, available, localStorage, analysisCache, now, steps>>

Call_getById ==
  \E id \in Ids :
    LET g == getById(localStorage, id) IN
    /\ last' = Last("getById", id, NoArg, ~g.threw, g.threw, Arr(g.ret))
    /\ UNCHANGED <<inflight, available, localStorage, analysisCache, now, steps>>

Call_getDashboardData ==
  LET g == getDashboardData(localStorage) IN
  /\ Step
  /\ localStorage' = g.ls
  /\ last' = Last("getDashboardData", 0, NoArg, ~g.threw, g.threw, Blob("dashboard", <<g.ret>>))
  /\ UNCHANGED <<inflight, available, analysisCache, now>>

\* a call of analysisStore.ts that answers a boolean: r is what the call leaves
Store(op, id, arg, r) ==
  /\ Step
  /\ localStorage' = r.ls
  /\ analysisCache' = r.cache
  /\ last' = Last(op, id, arg, r.ret, r.threw, NoRet)
  /\ UNCHANGED <<inflight, available, now>>

\* a call of analysisStore.ts that answers a record or nothing
StoreRecord(op, id, arg, r) ==
  /\ Step
  /\ localStorage' = r.ls
  /\ analysisCache' = r.cache
  /\ last' = Last(op, id, arg, r.ret # None, r.threw, Arr(r.ret))
  /\ UNCHANGED <<inflight, available, now>>

Call_getAllAnalyses ==
  LET r == getAllAnalyses(localStorage, analysisCache) IN
  /\ Step
  /\ localStorage' = r.ls
  /\ analysisCache' = r.cache
  /\ last' = Last("getAllAnalyses", 0, NoArg, TRUE, FALSE, r.ret)
  /\ UNCHANGED <<inflight, available, now>>

Call_getAnalysisById ==
  \E id \in Ids :
    StoreRecord("getAnalysisById", id, NoArg,
                getAnalysisById(localStorage, analysisCache, id))

Call_saveAnalysis ==
  \E a \in InputAnalyses :
    StoreRecord("saveAnalysis", a.id, Rec(a), saveAnalysis(localStorage, analysisCache, a))

Call_deleteAnalysis ==
  \E id \in Ids :
    Store("deleteAnalysis", id, NoArg, deleteAnalysis(localStorage, analysisCache, id))

Call_updateAnalysis ==
  \E id \in Ids, u \in InputUpdates :
    StoreRecord("updateAnalysis", id, Blob("updates", <<u>>),
                updateAnalysis(localStorage, analysisCache, id, u))

Call_updateAnalysisStatus ==
  /\ logLength < MaxLog
  /\ \E id \in Ids, st \in InputStatuses :
       Store("updateAnalysisStatus", id, Blob(st, <<>>),
             updateAnalysisStatus(localStorage, analysisCache, id, st))

\* a request to a route handler: r is what handling it leaves
Handler(op, id, arg, r) ==
  /\ Step
  /\ localStorage' = r.ls
  /\ analysisCache' = r.cache
  /\ last' = Last(op, id, arg, r.ret.val[1] < 300, FALSE, r.ret)
  /\ UNCHANGED <<inflight, available, now>>

Request_DELETE ==
  \E id \in Ids : Handler("DELETE", id, NoArg, DELETE(localStorage, analysisCache, id))

(***************************************************************************)
(* AnalysisStorage called directly, as the dashboard page does.            *)
(***************************************************************************)
NextAdapter ==
  \/ Tick
  \/ SetAvailable
  \/ Corrupt
  \/ Call_save
  \/ Call_delete
  \/ Call_updateStatus
  \/ Call_clearAll
  \/ Call_importData
  \/ Call_getAll
  \/ Call_getById
  \/ Call_getDashboardData

SpecAdapter == Init /\ [][NextAdapter]_vars

(***************************************************************************)
(* analysisStore.ts in front of the adapter.                               *)
(***************************************************************************)
Next ==
  \/ Tick
  \/ SetAvailable
  \/ Expire
  \/ Call_getAllAnalyses
  \/ Call_getAnalysisById
  \/ Call_saveAnalysis
  \/ Call_deleteAnalysis
  \/ Call_updateAnalysis
  \/ Call_updateAnalysisStatus
  \/ Request_DELETE

Spec == Init /\ [][Next]_vars

(***************************************************************************)
(* The adapter on a store that already holds records and a log: the store  *)
(* starts as importData leaves it.                                         *)
(***************************************************************************)
\* n records sent to the client: each gives getRecentActivity two entries
Coll(n) == [i \in 1..n |-> SavedAnalysis(i, "A", Num(100), "sent_to_client", 0, 0)]

\* the entry a caller of addDashboardActivity passes
Entry(k) == [id |-> <<"manual", k>>, type |-> "client_response",
             title |-> "Respuesta", about |-> "A", date |-> now]

\* the store after importData of n records into an empty store
Seeded(n) ==
  importData([rental_analyses |-> Absent, dashboard_data |-> NoDashboard],
             Blob("array", Coll(n))).ls

InitLog ==
  /\ available = TRUE
  /\ now = 0
  /\ analysisCache = EmptyCache
  /\ \E n \in {0, MaxRecords - 2, MaxRecords - 1, MaxRecords} : localStorage = Seeded(n)
  /\ last = [op |-> "init", id |-> 0, arg |-> NoArg, ok |-> FALSE, threw |-> FALSE,
             ret |-> NoRet,
             pre |-> [list |-> FALSE, entry |-> FALSE, held |-> FALSE, status |-> "none",
                     log |-> 0]]
  /\ steps = 0
  /\ inflight = NoRequests

Call_addDashboardActivity ==
  \E k \in {0, 1} :
    Adapter("addDashboardActivity", 0, NoArg, addDashboardActivity(localStorage, Entry(k)))

NextLog ==
  \/ Tick
  \/ Call_save
  \/ Call_delete
  \/ Call_updateStatus
  \/ Call_importData
  \/ Call_addDashboardActivity

SpecLog == InitLog /\ [][NextLog]_vars

(***************************************************************************)
(* The route handlers in front of analysisStore.ts.                        *)
(***************************************************************************)
\* What a client posts or puts: a full form with fields the conversion does
\* not read, a form whose value is not a number, and forms that lack a
\* required field.
InputForms ==
  { [title |-> "T", property_address |-> "addr2", property_value_clp |-> Digits(200),
     broker_email |-> "other", status |-> "published",
      metadata |-> [status |-> "published"]],
    [title |-> "T", property_address |-> "addr", property_value_clp |-> Letters,
     suggested_rent_clp |-> Digits(5), broker_email |-> "", tags |-> <<"x">>],
    [property_address |-> "addr2", property_value_clp |-> Digits(200), broker_email |-> "other"],
    [title |-> "T", property_address |-> "", property_value_clp |-> Digits(200),
     broker_email |-> "other"],
    [title |-> "T", property_address |-> "addr2", property_value_clp |-> EmptyText,
     broker_email |-> "other"] }

\* What a client patches: the entries of the body, in order.
InputBodies ==
  { << <<"status", "published">> >>,
    << <<"title", "B">> >>,
    << <<"property", [address |-> "z", value_clp |-> Num(1)]>>, <<"id", 1>>,
       <<"created_at", MaxTime>> >>,
    << <<"calculations", [cap_rate |-> Num(7)]>>, <<"status", "sent_to_client">> >>,
    << <<"status", "published">>, <<"tags", <<"x">>>> >> }

Request_GET ==
  \E id \in Ids : Handler("GET", id, NoArg, GET(localStorage, analysisCache, id))

Request_POST ==
  \E f \in InputForms :
    Handler("POST", now, Blob("form", <<f>>), POST(localStorage, analysisCache, f))

Request_PUT ==
  \E id \in Ids, f \in InputForms :
    Handler("PUT", id, Blob("form", <<f>>), PUT(localStorage, analysisCache, id, f))

Request_PATCH ==
  \E id \in Ids, b \in InputBodies :
    Handler("PATCH", id, Blob("body", b), PATCH(localStorage, analysisCache, id, b))

NextRoutes ==
  \/ Tick
  \/ SetAvailable
  \/ Expire
  \/ Request_GET
  \/ Request_POST
  \/ Request_PUT
  \/ Request_PATCH
  \/ Request_DELETE
  \/ Call_updateAnalysis

SpecRoutes == Init /\ [][NextRoutes]_vars

(***************************************************************************)
(* The list query on a store that already holds records: the store starts  *)
(* as importData leaves it.                                                *)
(***************************************************************************)
Listing(id, title, value, bedrooms, bathrooms, tags, status, created, updated) ==
  [SavedAnalysis(id, title, Num(value), status, created, updated) EXCEPT
     !.property = spread(@, [bedrooms |-> Num(bedrooms), bathrooms |-> Num(bathrooms)]),
     !.metadata.tags = tags]

\* a record whose metadata has no tags
Untagged(a) ==
  [a EXCEPT !.metadata = [k \in (DOMAIN a.metadata) \ {"tags"} |-> a.metadata[k]]]

\* The collections a query runs on: none; three records of which two have
\* the same title and the same updated_at, tagged a and b, c, and not at
\* all; the same in another order; and three of which one carries the empty
\* tag and one has no tags field.
InputCollections ==
  { <<>>,
    << Listing(0, "A", 0, 0, 0, <<"a", "b">>, "draft", 0, 1),
       Listing(1, "A", 100, 2, 1, <<"c">>, "published", 1, 1),
       Listing(2, "B", 200, 2, 0, <<>>, "draft", 2, 2) >>,
    << Listing(2, "B", 200, 2, 0, <<>>, "draft", 2, 2),
       Listing(1, "A", 100, 2, 1, <<"c">>, "published", 1, 1),
       Listing(0, "A", 0, 0, 0, <<"a", "b">>, "draft", 0, 1) >>,
    << Listing(0, "A", 0, 0, 0, <<"a", "b">>, "draft", 0, 1),
       Listing(1, "A", 100, 2, 1, <<"">>, "published", 1, 1),
       Untagged(Listing(2, "B", 200, 2, 0, <<>>, "draft", 2, 2)) >> }

NoParams == [k \in {} |-> 0]

\* a URL with one parameter
Param(name, values) == { [k \in {name} |-> v] : v \in values }

\* URLs with no or one filter
OneFilter ==
  {NoParams}
    \cup Param("status", {"draft"})
    \cup Param("minValue", {Digits(100)})
    \cup Param("maxValue", {Digits(0), Digits(100)})
    \cup Param("bedrooms", {Digits(0), Digits(2)})
    \cup Param("bathrooms", {Digits(0)})
    \cup Param("tags", {Csv(<<>>), Csv(<<"a">>), Csv(<<"b", "c">>)})
    \cup Param("dateFrom", {DateText(1)})
    \cup Param("dateTo", {DateText(1)})

\* The URLs a client asks for: up to two filters; each sort key in each
\* direction, with and without a filter; a search, a bound that is no
\* number; pages of one, two and ten records, with and without a filter.
InputQueries ==
  { spread(a, b) : a \in OneFilter, b \in OneFilter }
    \cup { spread(a, [sortBy |-> k, sortOrder |-> o]) :
             a \in {NoParams, [status |-> "draft"]},
             k \in {"created_at", "updated_at", "property_value", "title"},
             o \in {"asc", "desc"} }
    \cup { [search |-> "A"], [maxValue |-> Letters], [minValue |-> Digits(0)] }
    \cup { [page |-> Digits(n)] : n \in 1..2 }
    \cup { [page |-> Digits(n), pageSize |-> Digits(m)] : n \in 1..4, m \in 1..2 }
    \cup { [status |-> "draft", page |-> Digits(n), pageSize |-> Digits(1)] : n \in 2..3 }

InitQuery ==
  /\ available = TRUE
  /\ now = 0
  /\ analysisCache = EmptyCache
  /\ \E analyses \in InputCollections :
       localStorage = importData([rental_analyses |-> Absent, dashboard_data |-> NoDashboard],
                                 Blob("array", analyses)).ls
  /\ last = [op |-> "init", id |-> 0, arg |-> NoArg, ok |-> FALSE, threw |-> FALSE,
             ret |-> NoRet,
             pre |-> [list |-> FALSE, entry |-> FALSE, held |-> FALSE, status |-> "none",
                     log |-> 0]]
  /\ steps = 0
  /\ inflight = NoRequests

\* GET /api/analyses
Request_LIST ==
  \E searchParams \in InputQueries :
    \E sorted \in LIST_outcomes(getAllAnalyses(localStorage, analysisCache), searchParams) :
      LET r == LIST_sorted(getAllAnalyses(localStorage, analysisCache), searchParams, sorted)
      IN  /\ localStorage' = r.ls
          /\ analysisCache' = r.cache
          /\ last' = Last("LIST", 0, Blob("query", <<searchParams>>), TRUE, FALSE, r.ret)
          /\ UNCHANGED <<inflight, available, now, steps>>

NextQuery == Request_LIST

SpecQuery == InitQuery /\ [][NextQuery]_vars

(***************************************************************************)
(* Reads, partial updates and updateAnalysis on a store that already holds *)
(* records.                                                                *)
(***************************************************************************)
\* two records that differ in their property and their creation time
Stock ==
  << Listing(0, "A", 0, 0, 0, <<"a", "b">>, "draft", 0, 1),
     Listing(1, "A", 100, 2, 1, <<"c">>, "published", 1, 1) >>

InitStocked ==
  /\ available = TRUE
  /\ now = 0
  /\ analysisCache = EmptyCache
  /\ localStorage = importData([rental_analyses |-> Absent, dashboard_data |-> NoDashboard],
                               Blob("array", Stock)).ls
  /\ last = [op |-> "init", id |-> 0, arg |-> NoArg, ok |-> FALSE, threw |-> FALSE,
             ret |-> NoRet,
             pre |-> [list |-> FALSE, entry |-> FALSE, held |-> FALSE, status |-> "none",
                     log |-> 0]]
  /\ steps = 0
  /\ inflight = NoRequests

NextStocked ==
  \/ Request_GET
  \/ Request_PATCH
  \/ Call_updateAnalysis

SpecStocked == InitStocked /\ [][NextStocked]_vars

(***************************************************************************)
(* analysisStore.ts as its second definition has it: the text of the file   *)
(* from line 146 on repeats the module with another                         *)
(* initializeWithExampleData; the other functions are the same.             *)
(***************************************************************************)
Call_getAllAnalyses_2 ==
  LET r == getAllAnalyses_2(localStorage, analysisCache) IN
  /\ Step
  /\ localStorage' = r.ls
  /\ analysisCache' = r.cache
  /\ last' = Last("getAllAnalyses", 0, NoArg, TRUE, FALSE, r.ret)
  /\ UNCHANGED <<inflight, available, now>>

NextSecond ==
  \/ Tick
  \/ Expire
  \/ Call_getAllAnalyses_2
  \/ Call_saveAnalysis
  \/ Call_deleteAnalysis

SpecSecond == Init /\ [][NextSecond]_vars

(***************************************************************************)
(* Export and import: what exportData answers is handed to importData.     *)
(***************************************************************************)
Call_importAny ==
  \E b \in InputBlobs \cup {Blob("array", <<Stub>>)} :
    Adapter("importData", 0, b, importData(localStorage, b))

Call_exportImport ==
  LET e == exportData(localStorage) IN
  Adapter("exportImport", 0, e.ret,
          IF e.threw THEN Throw(e.ls, FALSE) ELSE importData(e.ls, e.ret))

NextExport ==
  \/ Tick
  \/ SetAvailable
  \/ Call_save
  \/ Call_clearAll
  \/ Call_importAny
  \/ Call_exportImport

SpecExport == Init /\ [][NextExport]_vars

(***************************************************************************)
(* Two requests in flight.  A handler is an async function whose only      *)
(* await is that of the request body, its first statement: the request     *)
(* waits there having read nothing, and what follows the await runs to the *)
(* response in one turn of the event loop.                                 *)
(***************************************************************************)
MaxRequests == 2

\* a request arrives and waits for its body
Suspend(op, id, arg) ==
  /\ Len(inflight.waiting) + Len(inflight.done) < MaxRequests
  /\ inflight' = [inflight EXCEPT !.waiting = Append(@, [op |-> op, id |-> id, arg |-> arg])]
  /\ UNCHANGED <<available, localStorage, analysisCache, now, last, steps>>

Arrive ==
  \/ \E f \in InputForms : Suspend("POST", 0, Blob("form", <<f>>))
  \/ \E id \in Ids, f \in InputForms : Suspend("PUT", id, Blob("form", <<f>>))
  \/ \E id \in Ids, b \in InputBodies : Suspend("PATCH", id, Blob("body", b))

\* the sequence without its i-th element
without(s, i) == SubSeq(s, 1, i - 1) \o SubSeq(s, i + 1, Len(s))

\* the body of a waiting request is there: the handler runs from the await to
\* its response
Resume ==
  \E i \in 1..Len(inflight.waiting) :
    LET q == inflight.waiting[i]
        id == IF q.op = "POST" THEN now ELSE q.id
        r == CASE q.op = "POST" -> POST(localStorage, analysisCache, q.arg.val[1])
               [] q.op = "PUT" -> PUT(localStorage, analysisCache, q.id, q.arg.val[1])
               [] OTHER -> PATCH(localStorage, analysisCache, q.id, q.arg.val)
    IN  /\ Step
        /\ localStorage' = r.ls
        /\ analysisCache' = r.cache
        /\ last' = Last(q.op, id, q.arg, r.ret.val[1] < 300, FALSE, r.ret)
        /\ inflight' = [waiting |-> without(inflight.waiting, i),
                        done |-> Append(inflight.done,
                                        [op |-> q.op, id |-> id, arg |-> q.arg,
                                         ok |-> r.ret.val[1] < 300])]
        /\ UNCHANGED <<available, now>>

NextAwait ==
  \/ Tick
  \/ Arrive
  \/ Resume

SpecAwait == InitStocked /\ [][NextAwait]_vars

(***************************************************************************)
(* Reads and saves through analysisStore.ts next to imports and clearAll   *)
(* of the adapter, which know nothing of the cache.                        *)
(***************************************************************************)
NextMixed ==
  \/ Tick
  \/ Call_getAllAnalyses
  \/ Call_getAnalysisById
  \/ Call_saveAnalysis
  \/ Call_importData
  \/ Call_clearAll

SpecMixed == Init /\ [][NextMixed]_vars

(***************************************************************************)
(* Properties.                                                             *)
(***************************************************************************)
Mutations == {"saveAnalysis", "updateAnalysis", "deleteAnalysis", "updateAnalysisStatus"}

\* the first stored record with this id, the one getById answers
first(s, id) == s[CHOOSE i \in held(s, id) : \A j \in held(s, id) : i <= j]

\* every number of the record is a number, not NaN
finite(a) ==
  /\ a.property.value_clp.k = "num"
  /\ a.analysis.suggested_rent_clp.k = "num"
  /\ a.calculations.cap_rate.k = "num"

\* C1: after a successful saveAnalysis, updateAnalysis, deleteAnalysis or
\* updateAnalysisStatus that found the list cached, the next getAllAnalyses()
\* answers the collection the adapter holds, not the cached list.
C1_ListFollowsMutation ==
  [][ (last'.op \in Mutations /\ last'.ok /\ ~last'.threw /\ last'.pre.list)
        => getAllAnalyses(localStorage', analysisCache').ret = localStorage'.rental_analyses
    ]_vars

\* a record was deleted while the list that held it was cached
C1_Witness ==
  /\ last.op = "deleteAnalysis" /\ last.ok
  /\ last.pre.list /\ last.pre.held
  /\ stored # <<>>

\* C2: after save(r) answers true, getById(r.id) answers r in every field but
\* updated_at, and an updated_at not before the time of the save.  Stated for
\* the records whose numbers are all numbers.
C2_SaveThenGet ==
  [][ (last'.op = "save" /\ last'.ok /\ finite(last'.arg.val[1]))
        => LET r == last'.arg.val[1]
               g == getById(localStorage', r.id)
           IN  /\ ~g.threw
               /\ g.ret # None
               /\ [g.ret[1] EXCEPT !.metadata.updated_at = 0]
                    = [r EXCEPT !.metadata.updated_at = 0]
               /\ g.ret[1].metadata.updated_at >= now
    ]_vars

\* C3: after a successful deleteAnalysis(id) of a record that is not published,
\* getAnalysisById(id) answers nothing and getAllAnalyses() holds no record
\* with that id, whatever was cached.
C3_DeleteRemoves ==
  [][ (last'.op = "deleteAnalysis" /\ last'.ok /\ last'.pre.status # "published")
        => LET one == getAnalysisById(localStorage', analysisCache', last'.id)
               all == getAllAnalyses(localStorage', analysisCache').ret
           IN  /\ ~one.threw
               /\ one.ret = None
               /\ all.kind = "array"
               /\ \A i \in 1..Len(all.val) : all.val[i].id # last'.id
    ]_vars

\* a stored draft was deleted while it and the list were cached
C3_Witness ==
  /\ last.op = "deleteAnalysis" /\ last.ok
  /\ last.pre.held /\ last.pre.status = "draft"
  /\ last.pre.entry /\ last.pre.list

\* C4: a delete of a published record, by deleteAnalysis or by the DELETE
\* handler, fails (the handler answers 403) and leaves the storage and the
\* cached list and records as they were.
C4_PublishedIsKept ==
  [][ (last'.op \in {"deleteAnalysis", "DELETE"} /\ last'.pre.status = "published")
        => /\ ~last'.ok
           /\ last'.op = "DELETE" => last'.ret = Response(403)
           /\ localStorage' = localStorage
           /\ analysisCache'.list = analysisCache.list
           /\ \A id \in Ids :
                cacheGet(analysisCache, id) # None
                  => cacheGet(analysisCache', id) = cacheGet(analysisCache, id)
    ]_vars

AdapterReads == {"getAll", "getById", "getDashboardData"}
AdapterWrites == {"save", "delete", "updateStatus", "importData", "clearAll"}

\* C5: with the store unavailable every adapter read answers the empty
\* collection, nothing, or the zeroed summary, every adapter write answers
\* false, none of them throws and nothing stored changes.
C5_UnavailableDegrades ==
  [][ (~available /\ ~available' /\ last'.op \in AdapterReads \cup AdapterWrites)
        => /\ ~last'.threw
           /\ localStorage' = localStorage
           /\ last'.op \in AdapterWrites => ~last'.ok
           /\ last'.op = "getAll" => last'.ret = Arr(<<>>)
           /\ last'.op = "getById" => last'.ret = Arr(None)
           /\ last'.op = "getDashboardData" => last'.ret = Blob("dashboard", <<ZeroDashboard>>)
    ]_vars

\* a save was refused while the store held records and could not be reached
C5_Witness ==
  /\ ~available
  /\ last.op = "save" /\ ~last.ok
  /\ stored # <<>>

Malformed == {"garbage", "nonarray"}

\* C6: while the stored text is no array of records, getAll and getById answer
\* as on an empty collection, save, delete and updateStatus answer false and
\* leave the text as it is, and none of them throws.
C6_MalformedFailsClosed ==
  [][ (available /\ localStorage.rental_analyses.kind \in Malformed
         /\ last'.op \in {"getAll", "getById", "save", "delete", "updateStatus"})
        => /\ ~last'.threw
           /\ last'.op = "getAll" => last'.ret = Arr(<<>>)
           /\ last'.op = "getById" => last'.ret = Arr(None)
           /\ last'.op \in {"save", "delete", "updateStatus"}
                => ~last'.ok /\ localStorage'.rental_analyses = localStorage.rental_analyses
    ]_vars

\* C7: save(r) on a collection that holds r.id writes r over the first record
\* with that id, stamped with the current time, and keeps the length; on a
\* collection that does not hold it, it appends r; all other positions keep
\* their records.
C7_Upsert ==
  [][ (last'.op = "save" /\ last'.ok)
        => LET r == last'.arg.val[1]
               old == stored
               new == stored'
           IN  IF held(old, r.id) # {}
               THEN LET i == CHOOSE i \in held(old, r.id) : \A j \in held(old, r.id) : i <= j
                    IN  /\ Len(new) = Len(old)
                        /\ new[i] = JSONRecord([r EXCEPT !.metadata.updated_at = now])
                        /\ \A j \in 1..Len(old) : j # i => new[j] = old[j]
               ELSE /\ Len(new) = Len(old) + 1
                    /\ new[Len(new)] = JSONRecord(r)
                    /\ \A j \in 1..Len(old) : new[j] = old[j]
    ]_vars

\* a record among several was replaced by one carrying another updated_at
C7_Witness ==
  /\ last.op = "save" /\ last.ok /\ last.pre.held
  /\ Len(stored) >= 2
  /\ last.arg.val[1].metadata.updated_at # now
  /\ first(stored, last.id).metadata.updated_at = now

\* C8: no two stored records have the same id.
C8_IdsUnique ==
  \A i, j \in 1..Len(stored) : stored[i].id = stored[j].id => i = j

\* C9: no save, updateAnalysis or updateAnalysisStatus on the id of a stored
\* record changes its created_at.
C9_CreatedAtKept ==
  [][ (last'.op \in {"saveAnalysis", "updateAnalysis", "updateAnalysisStatus"}
         /\ held(stored, last'.id) # {} /\ held(stored', last'.id) # {})
        => first(stored', last'.id).metadata.created_at
             = first(stored, last'.id).metadata.created_at
    ]_vars

\* C10: a successful save, updateAnalysis or updateAnalysisStatus leaves the
\* stored updated_at of its record at the time of the call, and the stored
\* updated_at of an id never decreases.
C10_UpdatedAtRefreshed ==
  [][ /\ (last'.op \in {"saveAnalysis", "updateAnalysis", "updateAnalysisStatus"}
            /\ last'.ok /\ ~last'.threw)
         => first(stored', last'.id).metadata.updated_at = now
      /\ \A id \in Ids :
           (now' >= now /\ held(stored, id) # {} /\ held(stored', id) # {})
             => first(stored', id).metadata.updated_at >= first(stored, id).metadata.updated_at
    ]_vars


\* the activity log of the stored dashboard summary, newest first
recentActivity == localStorage.dashboard_data.val.recentActivity

\* C11: in every reachable state, after any sequence of save, delete,
\* updateStatus, importData and addDashboardActivity calls, the stored
\* dashboard summary's recentActivity holds at most 20 entries.
C11_LogBounded == Len(recentActivity) <= ActivityCap

\* an entry was appended to a log that already held 20 entries
C11_Witness ==
  /\ last.op = "addDashboardActivity"
  /\ last.pre.log = ActivityCap
  /\ Len(recentActivity) = ActivityCap
  /\ recentActivity[1].id[1] = "manual"

\* C12: the activity log is append-only with oldest-first eviction: a save,
\* delete, importData or updateStatus either leaves the log as it was or puts
\* one new entry in front of it and cuts the result to 20 entries; none of
\* them removes, replaces or reorders entries already in the log.
C12_LogAppendOnly ==
  [][ last'.op \in {"save", "delete", "importData", "updateStatus"}
        => \/ recentActivity' = recentActivity
           \/ /\ recentActivity' # <<>>
              /\ recentActivity' = slice(<<recentActivity'[1]>> \o recentActivity, ActivityCap) ]_vars

\* the stored dashboard summary
dashboard == localStorage.dashboard_data

\* C13: after every successful saveAnalysis, updateAnalysis,
\* updateAnalysisStatus and deleteAnalysis the stored dashboard summary has
\* totalAnalyses equal to the number of persisted records, activeRentals
\* equal to the number of them whose status is sent_to_client or published,
\* and totalRevenue equal to the sum of their suggested rents.
C13_AggregatesTrack ==
  [][ (last'.op \in Mutations /\ last'.ok /\ ~last'.threw)
        => /\ dashboard'.kind = "object"
           /\ dashboard'.val.totalAnalyses = Len(stored')
           /\ dashboard'.val.activeRentals =
                Cardinality({ i \in 1..Len(stored') :
                               stored'[i].metadata.status \in {"sent_to_client", "published"} })
           /\ dashboard'.val.totalRevenue =
                sum([i \in 1..Len(stored') |-> orZero(stored'[i].analysis.suggested_rent_clp)]) ]_vars

\* C14: each successful saveAnalysis, updateAnalysis, updateAnalysisStatus
\* and deleteAnalysis call leaves a new activity entry for that operation,
\* dated now, at the head of the activity log (an entry of the call, not one
\* derived from the records).
C14_MutationLogged ==
  [][ (last'.op \in Mutations /\ last'.ok /\ ~last'.threw)
        => /\ recentActivity' # <<>>
           /\ recentActivity'[1].date = now
           /\ recentActivity'[1].id[1] \notin {"analysis", "sent"}
           /\ last'.op = "saveAnalysis" => recentActivity'[1].id[1] = "save"
           /\ last'.op = "deleteAnalysis" => recentActivity'[1].id[1] = "delete"
           /\ last'.op = "updateAnalysisStatus" => recentActivity'[1].id[1] = "activity" ]_vars

\* C15: when the adapter's save reports failure, saveAnalysis raises an error
\* instead of returning a record, and it neither sets the cached entry, nor
\* invalidates the cached list, nor appends an activity entry; when save
\* succeeds it returns the record and appends one analysis_created entry.
C15_CreateFailsLoudly ==
  [][ last'.op = "saveAnalysis"
        => LET analysis == last'.arg.val[1]
               s == save(localStorage, analysis)
               written == s.ls.dashboard_data.val.recentActivity
           IN  IF ~s.ret
               THEN /\ last'.threw /\ ~last'.ok
                    /\ analysisCache' = analysisCache
                    /\ localStorage' = localStorage
               ELSE /\ ~last'.threw
                    /\ last'.ret = Arr(Some(analysis))
                    /\ recentActivity'[1].type = "analysis_created"
                    /\ recentActivity'[1].id = <<"save", now>>
                    /\ recentActivity' = slice(<<recentActivity'[1]>> \o written, ActivityCap) ]_vars

\* saveAnalysis was called while the adapter could not save
C15_Witness ==
  /\ last.op = "saveAnalysis" /\ last.threw /\ ~available
  /\ stored # <<>>

\* C16: for every existing id and every partial record p, updateAnalysis(id, p)
\* persists a record in which each top-level field present in p replaces the
\* old one, metadata is the old metadata overridden key by key with
\* p.metadata, metadata.updated_at is the current time even if p.metadata
\* supplies another one, and every field p does not name keeps its old value.
\* The record is persisted under the id it then has.
C16_UpdateMerge ==
  [][ (last'.op = "updateAnalysis" /\ available /\ last'.pre.held)
        => LET p == last'.arg.val[1]
               pm == IF "metadata" \in DOMAIN p THEN p.metadata ELSE [k \in {} |-> 0]
               old == first(stored, last'.id)
               id == IF "id" \in DOMAIN p THEN p.id ELSE last'.id
               new == first(stored', id)
           IN  /\ last'.ok
               /\ held(stored', id) # {}
               /\ DOMAIN new = DOMAIN old
               /\ \A k \in DOMAIN old \ {"metadata"} :
                    new[k] = IF k \in DOMAIN p THEN p[k] ELSE old[k]
               /\ DOMAIN new.metadata = DOMAIN old.metadata
               /\ \A k \in DOMAIN old.metadata \ {"updated_at"} :
                    new.metadata[k] = IF k \in DOMAIN pm THEN pm[k] ELSE old.metadata[k]
               /\ new.metadata.updated_at = now ]_vars

\* an update that supplied an updated_at of its own was stored with the
\* current time
C16_Witness ==
  /\ last.op = "updateAnalysis" /\ last.ok
  /\ "metadata" \in DOMAIN last.arg.val[1]
  /\ "updated_at" \in DOMAIN last.arg.val[1].metadata
  /\ last.arg.val[1].metadata.updated_at # now
  /\ first(stored, last.id).metadata.updated_at = now

\* C17: a successful updateStatus(id, s) changes only metadata.status (to s)
\* and metadata.updated_at (to now) of the record with that id; every other
\* field of that record, every other record, and the order and length of the
\* collection are unchanged.  No transition is rejected: on an available
\* store the call succeeds for every stored id, whatever the old status.
C17_StatusFrame ==
  [][ last'.op = "updateStatus"
        => /\ (available /\ last'.pre.held) => last'.ok
           /\ last'.ok =>
                LET ids == held(stored, last'.id)
                    i == CHOOSE i \in ids : \A j \in ids : i <= j
                IN  /\ ids # {}
                    /\ Len(stored') = Len(stored)
                    /\ stored'[i] = [stored[i] EXCEPT !.metadata.status = last'.arg.kind,
                                                      !.metadata.updated_at = now]
                    /\ \A j \in (1..Len(stored)) \ {i} : stored'[j] = stored[j] ]_vars

\* a published record was set back to sent_to_client, at a later time than
\* its last update and with another record stored
C17_Witness ==
  /\ last.op = "updateStatus" /\ last.ok
  /\ last.pre.status = "published" /\ last.arg.kind = "sent_to_client"
  /\ Len(stored) > 1
  /\ first(stored, last.id).metadata.updated_at = now /\ now > 0

\* C18: updateAnalysisStatus (and the adapter's updateStatus under it) on an
\* id that is not in the persisted collection returns failure, appends no
\* activity entry, and leaves the persisted collection, the dashboard summary
\* and the cache unchanged.
C18_StatusOfMissing ==
  [][ (last'.op = "updateAnalysisStatus" /\ ~last'.pre.held)
        => /\ ~last'.ok /\ ~last'.threw
           /\ localStorage' = localStorage
           /\ analysisCache' = analysisCache ]_vars

\* the status of an id that is not stored was set while other records were
\* stored, the list was cached and the log was not empty
C18_Witness ==
  /\ last.op = "updateAnalysisStatus" /\ ~last.pre.held /\ ~last.ok
  /\ available
  /\ stored # <<>>
  /\ last.pre.list
  /\ recentActivity # <<>>

\* C19: importData with a payload that cannot be parsed, or whose analyses
\* field is missing or is not an array, returns failure and leaves the
\* persisted collection and the dashboard summary exactly as they were.
C19_ImportRejects ==
  [][ (last'.op = "importData" /\ last'.arg.kind \in {"garbage", "missing", "nonarray"})
        => /\ ~last'.ok /\ ~last'.threw
           /\ localStorage' = localStorage ]_vars

\* a malformed payload was imported into a store that held records and a
\* dashboard summary
C19_Witness ==
  /\ last.op = "importData" /\ last.arg.kind \in {"garbage", "missing", "nonarray"}
  /\ available
  /\ stored # <<>>
  /\ dashboard.kind = "object"

\* C20: after a successful importData(blob) the persisted collection is
\* exactly blob.analyses: no record of the previous collection survives unless
\* it is in the blob; and the stored dashboard aggregates are those of the
\* imported collection.
C20_ImportReplaces ==
  [][ (last'.op = "importData" /\ last'.ok)
        => LET analyses == last'.arg.val IN
           /\ last'.arg.kind = "array"
           /\ localStorage'.rental_analyses = Arr(analyses)
           /\ dashboard'.kind = "object"
           /\ dashboard'.val.totalAnalyses = Len(analyses)
           /\ dashboard'.val.activeRentals =
                Cardinality({ i \in 1..Len(analyses) :
                               analyses[i].metadata.status \in {"sent_to_client", "published"} })
           /\ dashboard'.val.totalRevenue =
                sum([i \in 1..Len(analyses) |-> orZero(analyses[i].analysis.suggested_rent_clp)]) ]_vars

\* an import went through on a store that held a record the blob does not
\* have, and the record is gone
C20_Witness ==
  /\ last.op = "importData" /\ last.ok
  /\ last.pre.held
  /\ held(stored, last.id) = {}
  /\ stored # <<>>

\* the form of the last request
form == last.arg.val[1]

\* a form whose title, address or property value is missing or empty
Incomplete(f) ==
  \/ "title" \notin DOMAIN f \/ f.title = ""
  \/ "property_address" \notin DOMAIN f \/ f.property_address = ""
  \/ "property_value_clp" \notin DOMAIN f \/ f.property_value_clp = EmptyText

\* C21: a POST or PUT whose title, address or property value is missing or
\* empty is rejected with a validation error (400), and the persisted
\* collection, the cache, the dashboard summary and the activity log are
\* unchanged by the request.
C21_ValidationDoesNothing ==
  [][ (last'.op \in {"POST", "PUT"} /\ Incomplete(form'))
        => /\ last'.ret = Response(400)
           /\ localStorage' = localStorage
           /\ analysisCache' = analysisCache ]_vars

\* an incomplete form was put to a stored id on an available store
C21_Witness ==
  /\ last.op = "PUT" /\ Incomplete(form)
  /\ available /\ last.pre.held
  /\ last.ret = Response(400)

\* the last call named an id by which no persisted record goes; a PUT
\* that carries an incomplete form is left to the validation
Unknown(l) ==
  /\ l.op \in {"GET", "PUT", "PATCH", "DELETE", "updateAnalysis"}
  /\ l.op = "PUT" => ~Incomplete(l.arg.val[1])
  /\ ~l.pre.held

\* the caller was told that there is no such record
NotFound(l) ==
  IF l.op = "updateAnalysis"
  THEN ~l.ok /\ ~l.threw /\ l.ret = Arr(None)
  ELSE l.ret = Response(404)

C23_CreatedAsDraft ==
  [][ (last'.op = "POST" /\ last'.ok)
        => /\ held(stored', last'.id) # {}
           /\ \A i \in held(stored', last'.id) :
                stored'[i].metadata.status = "draft" ]_vars

\* a form that names the status published was posted and answered 201
C23_Witness ==
  /\ last.op = "POST" /\ last.ret = Response(201)
  /\ "status" \in DOMAIN form /\ form.status = "published"
  /\ "metadata" \in DOMAIN form
  /\ held(stored, last.id) # {}

\* the property and analysis fields a form asks for, as the stored text
\* holds them: a number typed as other than digits is written as null
Requested(f) ==
  [property |-> [address |-> f.property_address,
                 value_clp |-> JSONNumber(parseFloat(f.property_value_clp))],
   analysis |-> [suggested_rent_clp |->
                   IF "suggested_rent_clp" \in DOMAIN f
                   THEN JSONNumber(parseFloat(f.suggested_rent_clp)) ELSE Undefined]]

\* C24: a successful PUT on an existing id leaves the id, the status, the
\* creation time and the calculations of the persisted record as they were
\* before the request, and replaces its property and analysis fields with
\* those of the request.
C24_PutFrame ==
  [][ (last'.op = "PUT" /\ last'.ok /\ last'.pre.held)
        => /\ held(stored', last'.id) # {}
           /\ LET old == first(stored, last'.id)
                  new == first(stored', last'.id)
              IN  /\ new.id = old.id
                  /\ new.metadata.status = old.metadata.status
                  /\ new.metadata.created_at = old.metadata.created_at
                  /\ new.calculations = old.calculations
                  /\ new.property = Requested(form').property
                  /\ new.analysis = Requested(form').analysis ]_vars

\* the body of the last request, and the names PATCH may change
body == last.arg.val
allowedUpdates == {"status", "tags", "notes", "title"}

\* the entries of a body under the allowed names
Known(b) == SelectSeq(b, LAMBDA e : e[1] \in allowedUpdates)

\* C25: a PATCH whose body has field names outside status, tags, notes and
\* title is not rejected for them: it is answered, and leaves the store and
\* the cache, as the same PATCH without those names; on a stored id of an
\* available store the answer is 200; and the property, analysis,
\* calculations, id, created_at and broker of the persisted record are the
\* same before and after.
C25_PatchIgnoresUnknown ==
  [][ (last'.op = "PATCH" /\ Known(body') # body')
        => /\ LET r == PATCH(localStorage, analysisCache, last'.id, Known(body'))
              IN  /\ localStorage' = r.ls
                  /\ analysisCache' = r.cache
                  /\ last'.ret = r.ret
           /\ last'.ret # Response(400)
           /\ (available /\ last'.pre.held) => last'.ret = Response(200)
           /\ last'.pre.held
                => /\ held(stored', last'.id) # {}
                   /\ LET old == first(stored, last'.id)
                          new == first(stored', last'.id)
                      IN  /\ new.property = old.property
                          /\ new.analysis = old.analysis
                          /\ new.calculations = old.calculations
                          /\ new.id = old.id
                          /\ new.metadata.created_at = old.metadata.created_at
                          /\ new.metadata.broker_email = old.metadata.broker_email ]_vars

\* the URL of the last list query, and what it was answered
asked == last.arg.val[1]
response == last.ret.val[1]

\* the ids of the records of a sequence
ids(s) == { s[i].id : i \in 1..Len(s) }

\* the query named no page: the answer holds every match
Unpaged(q) == "page" \notin DOMAIN q /\ "pageSize" \notin DOMAIN q

\* the answer holds exactly the stored records that satisfy Match
Exactly(Match(_)) ==
  /\ ids(response.analyses) = { stored[i].id : i \in { j \in 1..Len(stored) : Match(stored[j]) } }
  /\ Len(response.analyses) = Cardinality(ids(response.analyses))
  /\ response.total = Len(response.analyses)

\* C26: a list query with the bounds minValue and maxValue, or one of them,
\* returns exactly the records with minValue <= property.value_clp <=
\* maxValue; a bound that is not given leaves its side open.
C26_ValueRange ==
  (/\ last.op = "LIST"
   /\ DOMAIN asked \subseteq {"minValue", "maxValue"}
   /\ DOMAIN asked # {}
   /\ \A k \in DOMAIN asked : asked[k].k = "digits")
    => LET InRange(a) ==
             /\ "minValue" \in DOMAIN asked => a.property.value_clp.v >= asked.minValue.v
             /\ "maxValue" \in DOMAIN asked => a.property.value_clp.v <= asked.maxValue.v
       IN  Exactly(InRange)

\* the members of a sequence
members(s) == { s[i] : i \in 1..Len(s) }

\* C27: a list query with a tag filter returns exactly the records whose tag
\* set shares a tag with the tags of the filter; a filter with no tags
\* returns no record, and a record with no tags is never returned.
C27_TagIntersection ==
  (last.op = "LIST" /\ DOMAIN asked = {"tags"})
    => LET Shares(a) ==
             /\ "tags" \in DOMAIN a.metadata
             /\ members(a.metadata.tags) \cap members(asked.tags.v) # {}
       IN  Exactly(Shares)

\* the filter fields a URL may supply, search apart
Supplied == {"status", "minValue", "maxValue", "dateFrom", "dateTo", "bedrooms",
             "bathrooms", "tags"}

\* the record satisfies every predicate the URL q supplies
Satisfies(q, a) ==
  /\ "status" \in DOMAIN q => a.metadata.status = q.status
  /\ "minValue" \in DOMAIN q => a.property.value_clp.v >= q.minValue.v
  /\ "maxValue" \in DOMAIN q => a.property.value_clp.v <= q.maxValue.v
  /\ "dateFrom" \in DOMAIN q => a.metadata.created_at >= q.dateFrom.v
  /\ "dateTo" \in DOMAIN q => a.metadata.created_at <= q.dateTo.v
  /\ "bedrooms" \in DOMAIN q => a.property.bedrooms.v = q.bedrooms.v
  /\ "bathrooms" \in DOMAIN q => a.property.bathrooms.v = q.bathrooms.v
  /\ "tags" \in DOMAIN q => members(tagsOf(a)) \cap members(q.tags.v) # {}

\* the numbers of the URL are written in digits
Numeric(q) ==
  \A k \in DOMAIN q \cap {"minValue", "maxValue", "bedrooms", "bathrooms"} :
    q[k].k = "digits"

\* C28: for every combination of supplied filter fields the list query
\* returns exactly the records that satisfy every supplied predicate, and a
\* field that is not supplied constrains nothing; a bedroom or bathroom
\* count of 0 selects exactly the records with 0 bedrooms or bathrooms.
C28_Conjunctive ==
  (last.op = "LIST" /\ DOMAIN asked \subseteq Supplied /\ Numeric(asked))
    => LET Match(a) == Satisfies(asked, a) IN Exactly(Match)

\* the positions lo+1 .. hi of a sequence, as far as it goes
positions(s, lo, hi) ==
  IF lo >= Len(s) THEN <<>> ELSE SubSeq(s, lo + 1, IF hi < Len(s) THEN hi ELSE Len(s))

\* C29: for a result of length total, a page >= 1 and a pageSize >= 1, the
\* list query returns the elements of the filtered and sorted result at the
\* positions (page-1)*pageSize up to but excluding page*pageSize, reports
\* total as the number of matches before pagination and hasMore as
\* page*pageSize < total; a page beyond the data gives an empty slice with
\* hasMore false, and no error.
C29_Pagination ==
  (last.op = "LIST" /\ "page" \in DOMAIN asked
     /\ DOMAIN asked \subseteq {"page", "pageSize", "status"})
    => LET page == asked.page.v
           pageSize == IF "pageSize" \in DOMAIN asked THEN asked.pageSize.v ELSE 10
           matching == SelectSeq(stored, LAMBDA a : Satisfies(asked, a))
           total == Len(matching)
       IN  /\ last.ret.kind = "list"
           /\ \E full \in Arrangements(matching) :
                /\ \A i, j \in 1..total :
                     i < j => full[i].metadata.updated_at >= full[j].metadata.updated_at
                /\ response.analyses = positions(full, (page - 1) * pageSize, page * pageSize)
           /\ response.total = total
           /\ response.hasMore = (page * pageSize < total)
           /\ (page - 1) * pageSize >= total
                => response.analyses = <<>> /\ ~response.hasMore

\* the second page of one record out of three was asked for, and more follow
C29_Witness ==
  /\ last.op = "LIST"
  /\ DOMAIN asked = {"page", "pageSize"}
  /\ asked.page = Digits(2) /\ asked.pageSize = Digits(1)
  /\ response.total = 3 /\ Len(response.analyses) = 1 /\ response.hasMore

\* the sort key and direction a URL asks for
sortBy(q) == IF "sortBy" \in DOMAIN q THEN q.sortBy ELSE "updated_at"
sortOrder(q) == IF "sortOrder" \in DOMAIN q THEN q.sortOrder ELSE "desc"

\* the place of the record with this id in a sequence
place(s, id) == CHOOSE i \in 1..Len(s) : s[i].id = id

\* C30: the list query orders the records by the sort key in the chosen
\* direction; two records with equal sort keys stand in the same relative
\* order as in the sequence before the sort; and an identical query
\* repeated on an unchanged collection returns the same order.
C30_SortStable ==
  [][ (last'.op = "LIST" /\ Unpaged(asked'))
        => LET before == getAllAnalyses(localStorage, analysisCache).ret.val
               after == response'.analyses
               key(a) == sortKey(a, sortBy(asked'))
           IN  /\ \A i, j \in 1..Len(after) :
                    i < j => IF sortOrder(asked') = "asc"
                             THEN key(after[i]) <= key(after[j])
                             ELSE key(after[i]) >= key(after[j])
               /\ \A i, j \in 1..Len(after) :
                    (i < j /\ key(after[i]) = key(after[j]))
                      => place(before, after[i].id) < place(before, after[j].id)
               /\ (last.op = "LIST" /\ asked = asked') => response' = response ]_vars

\* C31: after any sequence of repository operations a cached copy of a
\* record never differs from the persisted record: with the store
\* available, the entry the cache holds under an id is, field for field
\* (updated_at included), the record the adapter persists for that id, and
\* there is no entry for an id the adapter has no record of.
C31_CacheCoherent ==
  (available /\ localStorage.rental_analyses.kind = "array")
    => \A id \in Ids :
         cacheGet(analysisCache, id) # None
           => /\ held(stored, id) # {}
              /\ cacheGet(analysisCache, id)[1] = first(stored, id)

\* C32: the cache is transparent: whatever came before, getAllAnalyses
\* answers what AnalysisStorage.getAll answers, and getAnalysisById what
\* AnalysisStorage.getById answers.
C32_CacheTransparent ==
  [][ /\ last'.op = "getAllAnalyses" => last'.ret = getAll(localStorage)
      /\ (last'.op = "getAnalysisById" /\ ~last'.threw)
           => last'.ret = Arr(getById(localStorage, last'.id).ret) ]_vars

\* C33: a list query is read-only: it changes neither the persisted
\* collection nor the content or the order of the cached full list, so
\* getAllAnalyses answers after the query the records in the order it
\* would have answered them before.
C33_ListReadOnly ==
  [][ last'.op = "LIST"
        => /\ localStorage' = localStorage
           /\ cacheGetList(analysisCache) # None
                => cacheGetList(analysisCache') = cacheGetList(analysisCache)
           /\ getAllAnalyses(localStorage', analysisCache').ret
                = getAllAnalyses(localStorage, analysisCache).ret ]_vars

\* the names of a body, and the value it gives a name
names(b) == { b[i][1] : i \in 1..Len(b) }
valueOf(b, k) == b[CHOOSE i \in 1..Len(b) : b[i][1] = k][2]

\* C34: after a PATCH whose body has any of status, tags, notes and title,
\* the persisted record carries the value of the body for each of them that
\* the body has, all of them and not only the last, and its previous value
\* for each of them that the body has not.
C34_PatchAppliesAll ==
  [][ (last'.op = "PATCH" /\ last'.ok /\ last'.pre.held)
        => /\ held(stored', last'.id) # {}
           /\ LET old == first(stored, last'.id)
                  new == first(stored', last'.id)
              IN  /\ \A k \in {"status", "tags", "notes"} :
                       new.metadata[k] = IF k \in names(body') THEN valueOf(body', k)
                                         ELSE old.metadata[k]
                  /\ new.title = IF "title" \in names(body') THEN valueOf(body', "title")
                                 ELSE old.title ]_vars

\* C35: every create answered 201 adds a record under an id that was not
\* there before: the collection is one longer and the records it had are
\* still there, unchanged and in their places, also for two creates at the
\* same clock reading.
C35_CreateAdds ==
  [][ (last'.op = "POST" /\ last'.ok)
        => /\ ~last'.pre.held
           /\ Len(stored') = Len(stored) + 1
           /\ SubSeq(stored', 1, Len(stored)) = stored ]_vars

\* C36: getAllAnalyses on a store with no record answers no record and leaves
\* the store with no record, also after every record was deleted.
C36_ListingCreatesNothing ==
  [][ (last'.op = "getAllAnalyses" /\ stored = <<>>)
        => /\ last'.ret = Arr(<<>>)
           /\ stored' = <<>> ]_vars

\* C38: with the store available, importData(exportData()) answers success
\* and leaves the persisted collection as it was before the export, record
\* for record and in the same order.
C38_RoundTrip ==
  [][ (last'.op = "exportImport" /\ available)
        => /\ last'.ok /\ ~last'.threw
           /\ stored' = stored ]_vars

\* the entries of an activity log
entries(log) == { log[i] : i \in 1..Len(log) }

\* C39: delete and deleteAnalysis on an id that is not in the collection
\* leave the persisted records as they were and the activity log without a
\* new entry; and after a delete of an id, deleting it again leaves the
\* records that the first delete left.
C39_DeleteUnknown ==
  [][ last'.op \in {"delete", "deleteAnalysis"}
        => /\ ~last'.pre.held
             => /\ stored' = stored
                /\ entries(recentActivity') \subseteq entries(recentActivity)
           /\ delete(localStorage', last'.id).ls.rental_analyses.val = stored' ]_vars

\* the requests answered so far, in the order of their answers
done == inflight.done

\* what a request writes of a record
writes(q) ==
  IF q.op = "PATCH" THEN names(q.arg.val) \cap allowedUpdates ELSE {"title", "property"}

\* the later request b writes over what the earlier a wrote, as asked: the
\* same id and a part in common; a create writes a record of its own
overwrites(a, b) ==
  /\ b.op \in {"PUT", "PATCH"}
  /\ a.id = b.id
  /\ writes(a) \cap writes(b) # {}

\* the persisted records show what the request asked for
effect(q, s) ==
  /\ held(s, q.id) # {}
  /\ IF q.op = "PATCH"
     THEN \A k \in writes(q) :
            IF k = "title" THEN first(s, q.id).title = valueOf(q.arg.val, k)
            ELSE first(s, q.id).metadata[k] = valueOf(q.arg.val, k)
     ELSE /\ first(s, q.id).title = q.arg.val[1].title
          /\ first(s, q.id).property.address = q.arg.val[1].property_address

\* C37: two of POST, PUT and PATCH that wait only at the await of their body
\* and are both answered with success leave the effect of both in the
\* persisted records, in whichever order their bodies arrive, unless the
\* later one was asked to write over the earlier.
C37_NoLostUpdate ==
  (/\ Len(done) = 2
   /\ done[1].ok /\ done[2].ok
   /\ ~overwrites(done[1], done[2]))
    => /\ effect(done[1], stored)
       /\ effect(done[2], stored)

====
